---- MODULE Spec2Model ----
(***************************************************************************)
(* Session and credit-ledger subsystem of the qubit-discovery-hub front    *)
(* end: AuthProvider (session observer, profile resolver, updatePoints)    *)
(* and the paid-feature handlers that debit the held profile.              *)
(*                                                                         *)
(* Conventions.  A nullable value is a sequence of length 0 or 1: <<>> is  *)
(* null and <<p>> is the value p.  The session and the user are the        *)
(* subject id of session.user, or NoSession.  A React state setter called  *)
(* after the provider has unmounted leaves the state as it was.  A handler *)
(* that awaits keeps the profile and the updatePoints closure of the       *)
(* render in which it was invoked; both are the field ctx of the request.  *)
(***************************************************************************)
EXTENDS Integers, Sequences, FiniteSets, TLC

\* ------------------------------------------------------------ bounds ----
MaxInputs == 3      \* session observations and paid operations started in one run
MaxClock == 2       \* last value of the clock
InitBalance == 21   \* balance of a record left in the store by an earlier run

\* --------------------------------------------------------- constants ----
StartingBalance == 1000
SmilesCost == 7
Cost2D == 1
Cost3D == 3
CostClassical == 20
CostQuantum == 35
CostBoth == 50

Subjects == {"u1", "u2"}
Returning == "u2"   \* the subject whose record an earlier run left in the store
NoSession == "null"
Undefined == "undefined"
Emails == {"a@b.com"}
Viewers == {"v1", "v2"}
Clients == {"smiles", "index", "structure2D"} \cup Viewers
Approaches == {"classical", "quantum", "both"}

\* mutant: the combined analysis is charged the price of the quantum one
POINTS_COSTBothAsQuantum(approach) ==
    CASE approach = "classical" -> CostClassical
      [] approach = "quantum" -> CostQuantum
      [] approach = "both" -> CostQuantum

POINTS_COST(approach) ==
    CASE approach = "classical" -> CostClassical
      [] approach = "quantum" -> CostQuantum
      [] approach = "both" -> CostBoth

\* ------------------------------------------------- profile and store ----
UserProfile(id, email, token_points, created_at) ==
    [id |-> id, email |-> email, token_points |-> token_points,
     created_at |-> created_at]

\* localStorage key of a subject's record
Key(userId) == "user_profile_" \o userId

Keys == {Key(s) : s \in Subjects}

\* JSON.stringify of a profile: its members in insertion order
JSONstringify(p) ==
    << <<"id", p.id>>, <<"email", p.email>>,
       <<"token_points", p.token_points>>, <<"created_at", p.created_at>> >>

\* the value of member name in a serialized object (the last one wins)
Member(text, name) ==
    LET idx == {i \in 1..Len(text) : text[i][1] = name}
    IN  text[CHOOSE i \in idx : \A j \in idx : j <= i][2]

\* JSON.parse of a stored record
JSONparse(text) ==
    [id |-> Member(text, "id"), email |-> Member(text, "email"),
     token_points |-> Member(text, "token_points"),
     created_at |-> Member(text, "created_at")]

\* a record an earlier run of the application left behind
EarlierRecord(s) ==
    JSONstringify(UserProfile(s, "a@b.com", InitBalance, 0))

\* ------------------------------------------------ identity provider ----
\* results of supabase.auth.getUser(): it throws, or returns data.user,
\* which is null or carries an email that may be undefined
GetUserOutcomes ==
    {[threw |-> TRUE, user |-> <<>>]} \cup
    {[threw |-> FALSE, user |-> u] :
        u \in {<<>>} \cup {<<[email |-> e]>> : e \in Emails \cup {Undefined}}}

\* userData.user?.email || ''
EmailOrEmpty(user) ==
    LET email == IF user = <<>> THEN Undefined ELSE user[1].email
    IN  IF email \in {Undefined, ""} THEN "" ELSE email

\* ---------------------------------------------------- analysis backend --
\* a request throws, or answers with response.ok, and a body with success
\* and with or without the payload the caller needs
BackendOutcomes ==
    {[threw |-> TRUE, ok |-> FALSE, success |-> FALSE, payload |-> FALSE]}
    \cup [threw : {FALSE}, ok : BOOLEAN, success : BOOLEAN, payload : BOOLEAN]

VARIABLES
    mounted,         \* AuthProvider is mounted and subscribed
    getSession,      \* the initial getSession promise: "pending" or settled
    session,         \* useState session
    user,            \* useState user
    profile,         \* useState profile: <<>> or <<UserProfile>>
    loading,         \* useState loading
    store,           \* localStorage: key -> <<>> or serialized record
    pendingGetUser,  \* subject -> resolutions suspended at await getUser()
    now,             \* the last value new Date() returned
    smiles,          \* Smiles page: [isProcessing]
    index,           \* Index page: [selectedFile, showApproachSelection, isAnalyzing]
    viewer,          \* Molecule3DViewer instance -> [isLoading, structure2D, showVisualization]
    requests,        \* client -> <<>> or the backend request it awaits
    inputs,          \* session observations delivered and paid operations started
    effects          \* what the last step did

vars == <<mounted, getSession, session, user, profile, loading, store,
          pendingGetUser, now, smiles, index, viewer, requests, inputs,
          effects>>

authVars == <<mounted, getSession, session, user, profile, loading>>
uiVars == <<smiles, index, viewer>>

\* the record of one step: the handler that ran and its argument, the
\* settled result it resumed with, the store keys it wrote, the getUser
\* calls and backend requests it issued, its updatePoints calls (the profile
\* of the context value and the argument), the profiles it constructed, the
\* toast it showed, and whether an error left it
NoEffects ==
    [call |-> "", arg |-> "", outcome |-> <<>>, writes |-> <<>>,
     getUser |-> 0, requests |-> <<>>, updatePoints |-> <<>>,
     constructed |-> <<>>, toast |-> "", threw |-> FALSE]

\* one updatePoints call
Call(ctx, newPoints) == <<[profile |-> ctx, newPoints |-> newPoints]>>

\* React state setter: ignored once the provider has unmounted
SetState(old, new) == IF mounted THEN new ELSE old

Init ==
    /\ mounted = TRUE
    /\ getSession = "pending"
    /\ session = NoSession
    /\ user = NoSession
    /\ profile = <<>>
    /\ loading = TRUE
    /\ store = [k \in Keys |->
                   IF k = Key(Returning) THEN EarlierRecord(Returning) ELSE <<>>]
    /\ pendingGetUser = [s \in Subjects |-> 0]
    /\ now = 1
    /\ smiles = [isProcessing |-> FALSE]
    /\ index = [selectedFile |-> FALSE, showApproachSelection |-> FALSE,
                isAnalyzing |-> FALSE]
    /\ viewer = [v \in Viewers |->
                    [isLoading |-> FALSE, structure2D |-> FALSE,
                     showVisualization |-> FALSE]]
    /\ requests = [c \in Clients |-> <<>>]
    /\ inputs = 0
    /\ effects = NoEffects

\* ------------------------------------------------- profile resolver ----
\* mutant: the saved record is loaded with the starting balance
FetchUserProfileBeginResets(userId) ==
    LET savedProfile == store[Key(userId)]
    IN  IF savedProfile # <<>>
        THEN /\ profile' = SetState(profile,
                              <<[JSONparse(savedProfile) EXCEPT
                                   !.token_points = StartingBalance]>>)
             /\ loading' = SetState(loading, FALSE)
             /\ UNCHANGED pendingGetUser
        ELSE /\ pendingGetUser' = [pendingGetUser EXCEPT ![userId] = @ + 1]
             /\ UNCHANGED <<profile, loading>>

\* fetchUserProfile up to its first await: the saved record is loaded, or
\* the call suspends at getUser()
FetchUserProfileBegin(userId) ==
    LET savedProfile == store[Key(userId)]
    IN  IF savedProfile # <<>>
        THEN /\ profile' = SetState(profile, <<JSONparse(savedProfile)>>)
             /\ loading' = SetState(loading, FALSE)
             /\ UNCHANGED pendingGetUser
        ELSE /\ pendingGetUser' = [pendingGetUser EXCEPT ![userId] = @ + 1]
             /\ UNCHANGED <<profile, loading>>

\* the getUser calls FetchUserProfileBegin issues
GetUserCalls(userId) == IF store[Key(userId)] # <<>> THEN 0 ELSE 1

\* mutant: the fallback profile starts without points
NewProfileEmptyFallback(userId, outcome, date) ==
    IF outcome.threw
    THEN UserProfile(userId, "", 0, date)
    ELSE UserProfile(userId, EmailOrEmpty(outcome.user), StartingBalance, date)

\* the profile fetchUserProfile constructs after getUser() has settled
NewProfile(userId, outcome, date) ==
    IF outcome.threw
    THEN UserProfile(userId, "", StartingBalance, date)
    ELSE UserProfile(userId, EmailOrEmpty(outcome.user), StartingBalance, date)

\* mutant: no catch block, an error of getUser leaves fetchUserProfile
GetUserReturnNoCatch(userId, outcome, date) ==
    /\ pendingGetUser[userId] > 0
    /\ date >= now
    /\ now' = date
    /\ IF outcome.threw
       THEN /\ effects' = [NoEffects EXCEPT
                             !.call = "fetchUserProfile.resume",
                             !.arg = userId,
                             !.outcome = <<outcome>>,
                             !.threw = TRUE]
            /\ UNCHANGED <<store, profile, loading>>
       ELSE LET p == UserProfile(userId, EmailOrEmpty(outcome.user),
                                 StartingBalance, date)
            IN  /\ store' = [store EXCEPT ![Key(userId)] = JSONstringify(p)]
                /\ profile' = SetState(profile, <<p>>)
                /\ loading' = SetState(loading, FALSE)
                /\ effects' = [NoEffects EXCEPT
                                 !.call = "fetchUserProfile.resume",
                                 !.arg = userId,
                                 !.outcome = <<outcome>>,
                                 !.writes = <<Key(userId)>>,
                                 !.constructed = <<p>>]
    /\ pendingGetUser' = [pendingGetUser EXCEPT ![userId] = @ - 1]
    /\ UNCHANGED <<mounted, getSession, session, user, uiVars, requests,
                   inputs>>

\* fetchUserProfile from the return of getUser() to its end
GetUserReturn(userId, outcome, date) ==
    /\ pendingGetUser[userId] > 0
    /\ date >= now
    /\ now' = date
    /\ LET p == NewProfile(userId, outcome, date)
       IN  /\ store' = [store EXCEPT ![Key(userId)] = JSONstringify(p)]
           /\ profile' = SetState(profile, <<p>>)
           /\ loading' = SetState(loading, FALSE)
           /\ effects' = [NoEffects EXCEPT
                            !.call = "fetchUserProfile.resume",
                            !.arg = userId,
                            !.outcome = <<outcome>>,
                            !.writes = <<Key(userId)>>,
                            !.constructed = <<p>>]
    /\ pendingGetUser' = [pendingGetUser EXCEPT ![userId] = @ - 1]
    /\ UNCHANGED <<mounted, getSession, session, user, uiVars, requests,
                   inputs>>

\* ------------------------------------------------- session observer ----
\* the then-callback of the initial supabase.auth.getSession()
GetSessionThen(s) ==
    /\ getSession = "pending"
    /\ inputs < MaxInputs
    /\ inputs' = inputs + 1
    /\ getSession' = "resolved"
    /\ session' = SetState(session, s)
    /\ user' = SetState(user, s)
    /\ IF s # NoSession
       THEN /\ FetchUserProfileBegin(s)
            /\ effects' = [NoEffects EXCEPT !.call = "getSession.then",
                                            !.arg = s,
                                            !.getUser = GetUserCalls(s)]
       ELSE /\ loading' = SetState(loading, FALSE)
            /\ effects' = [NoEffects EXCEPT !.call = "getSession.then",
                                            !.arg = s]
            /\ UNCHANGED <<profile, pendingGetUser>>
    /\ UNCHANGED <<mounted, store, now, uiVars, requests>>

\* the initial getSession() rejects: the promise has no rejection handler
GetSessionReject ==
    /\ getSession = "pending"
    /\ getSession' = "rejected"
    /\ effects' = [NoEffects EXCEPT !.call = "getSession.reject",
                                    !.threw = TRUE]
    /\ UNCHANGED <<mounted, session, user, profile, loading, store,
                   pendingGetUser, now, uiVars, requests, inputs>>

\* mutant: signing out removes the record of the subject signed out
OnAuthStateChangeRemovesRecord(s) ==
    /\ mounted
    /\ inputs < MaxInputs
    /\ inputs' = inputs + 1
    /\ session' = SetState(session, s)
    /\ user' = SetState(user, s)
    /\ IF s # NoSession
       THEN /\ FetchUserProfileBegin(s)
            /\ effects' = [NoEffects EXCEPT !.call = "onAuthStateChange",
                                            !.arg = s,
                                            !.getUser = GetUserCalls(s)]
            /\ UNCHANGED store
       ELSE /\ profile' = SetState(profile, <<>>)
            /\ loading' = SetState(loading, FALSE)
            /\ store' = IF session = NoSession THEN store
                        ELSE [store EXCEPT ![Key(session)] = <<>>]
            /\ effects' = [NoEffects EXCEPT !.call = "onAuthStateChange",
                                            !.arg = s]
            /\ UNCHANGED pendingGetUser
    /\ UNCHANGED <<mounted, getSession, now, uiVars, requests>>

\* the onAuthStateChange callback, delivered while subscribed
OnAuthStateChange(s) ==
    /\ mounted
    /\ inputs < MaxInputs
    /\ inputs' = inputs + 1
    /\ session' = SetState(session, s)
    /\ user' = SetState(user, s)
    /\ IF s # NoSession
       THEN /\ FetchUserProfileBegin(s)
            /\ effects' = [NoEffects EXCEPT !.call = "onAuthStateChange",
                                            !.arg = s,
                                            !.getUser = GetUserCalls(s)]
       ELSE /\ profile' = SetState(profile, <<>>)
            /\ loading' = SetState(loading, FALSE)
            /\ effects' = [NoEffects EXCEPT !.call = "onAuthStateChange",
                                            !.arg = s]
            /\ UNCHANGED pendingGetUser
    /\ UNCHANGED <<mounted, getSession, store, now, uiVars, requests>>

\* the effect's cleanup: subscription.unsubscribe() as the provider unmounts
Unmount ==
    /\ mounted
    /\ mounted' = FALSE
    /\ effects' = [NoEffects EXCEPT !.call = "unsubscribe"]
    /\ UNCHANGED <<getSession, session, user, profile, loading, store,
                   pendingGetUser, now, uiVars, requests, inputs>>

\* signIn settles: it throws the error of signInWithPassword, if any
SignIn(error) ==
    /\ mounted
    /\ inputs < MaxInputs
    /\ inputs' = inputs + 1
    /\ effects' = [NoEffects EXCEPT !.call = "signIn",
                                    !.arg = IF error THEN "error" ELSE "ok",
                                    !.threw = error]
    /\ UNCHANGED <<authVars, store, pendingGetUser, now, uiVars, requests>>

\* the results of supabase.auth.signUp that signUp tells apart
SignUpOutcomes == {"ok", "error", "unconfirmed"}

\* signUp settles: it throws the error of the provider, and throws when
\* the new user's email is not confirmed yet
SignUp(outcome) ==
    /\ mounted
    /\ inputs < MaxInputs
    /\ inputs' = inputs + 1
    /\ effects' = [NoEffects EXCEPT !.call = "signUp",
                                    !.arg = outcome,
                                    !.threw = (outcome # "ok")]
    /\ UNCHANGED <<authVars, store, pendingGetUser, now, uiVars, requests>>

\* mutant: signOut clears the session state itself before it settles
SignOutClearsState(error) ==
    /\ mounted
    /\ inputs < MaxInputs
    /\ inputs' = inputs + 1
    /\ session' = NoSession
    /\ user' = NoSession
    /\ profile' = <<>>
    /\ effects' = [NoEffects EXCEPT !.call = "signOut",
                                    !.arg = IF error THEN "error" ELSE "ok",
                                    !.threw = error]
    /\ UNCHANGED <<mounted, getSession, loading, store, pendingGetUser, now,
                   uiVars, requests>>

\* signOut settles: it throws the error of supabase.auth.signOut, if any
SignOut(error) ==
    /\ mounted
    /\ inputs < MaxInputs
    /\ inputs' = inputs + 1
    /\ effects' = [NoEffects EXCEPT !.call = "signOut",
                                    !.arg = IF error THEN "error" ELSE "ok",
                                    !.threw = error]
    /\ UNCHANGED <<authVars, store, pendingGetUser, now, uiVars, requests>>

\* ---------------------------------------------------- ledger mutator ---
\* mutant: the argument is taken for the amount to deduct
UpdatedProfileDeducts(p, newPoints) ==
    [p EXCEPT !.token_points = @ - newPoints]

\* { ...profile, token_points: newPoints }
UpdatedProfile(p, newPoints) == [p EXCEPT !.token_points = newPoints]

\* mutant: the updated profile is set but not written to localStorage
UpdatePointsNotPersisted(ctx, newPoints) ==
    IF ctx # <<>>
    THEN /\ profile' = SetState(profile, <<UpdatedProfile(ctx[1], newPoints)>>)
         /\ UNCHANGED store
    ELSE UNCHANGED <<profile, store>>

\* mutant: the change of balance is applied to the profile held now, as a
\* functional state update would
UpdatePointsAppliesChange(ctx, newPoints) ==
    IF ctx # <<>> /\ profile # <<>>
    THEN LET updatedProfile ==
                 UpdatedProfile(profile[1],
                                profile[1].token_points
                                  + newPoints - ctx[1].token_points)
         IN  /\ profile' = SetState(profile, <<updatedProfile>>)
             /\ store' = [store EXCEPT
                            ![Key(ctx[1].id)] = JSONstringify(updatedProfile)]
    ELSE UNCHANGED <<profile, store>>

\* mutant: the test of profile is missing, and without a profile an object
\* of the balance alone is set
UpdatePointsNoProfileTest(ctx, newPoints) ==
    IF ctx # <<>>
    THEN LET updatedProfile == UpdatedProfile(ctx[1], newPoints)
         IN  /\ profile' = SetState(profile, <<updatedProfile>>)
             /\ store' = [store EXCEPT
                            ![Key(ctx[1].id)] = JSONstringify(updatedProfile)]
    ELSE /\ profile' = SetState(profile,
                                <<UserProfile("", "", newPoints, 0)>>)
         /\ UNCHANGED store

\* updatePoints(newPoints) of the context value whose profile is ctx
UpdatePoints(ctx, newPoints) ==
    IF ctx # <<>>
    THEN LET updatedProfile == UpdatedProfile(ctx[1], newPoints)
         IN  /\ profile' = SetState(profile, <<updatedProfile>>)
             /\ store' = [store EXCEPT
                            ![Key(ctx[1].id)] = JSONstringify(updatedProfile)]
    ELSE UNCHANGED <<profile, store>>

\* the store keys UpdatePoints writes
UpdatePointsWrites(ctx) == IF ctx # <<>> THEN <<Key(ctx[1].id)>> ELSE <<>>

\* a consumer calls updatePoints(newPoints) of the current context value
UpdatePointsCall(newPoints) ==
    /\ mounted
    /\ inputs < MaxInputs
    /\ inputs' = inputs + 1
    /\ UpdatePoints(profile, newPoints)
    /\ effects' = [NoEffects EXCEPT !.call = "updatePoints",
                                    !.updatePoints = Call(profile, newPoints),
                                    !.writes = UpdatePointsWrites(profile)]
    /\ UNCHANGED <<mounted, getSession, session, user, loading,
                   pendingGetUser, now, uiVars, requests>>

\* -------------------------------------------------- feature gates -------
ToastNoProfile == "Please wait for your profile to load."
ToastInsufficient == "Insufficient points"

\* the balance check of handleProcessSmiles: "" when the gate is passed
SmilesGate(p) ==
    IF p = <<>> THEN ToastNoProfile
    ELSE IF p[1].token_points < SmilesCost THEN ToastInsufficient
    ELSE ""

\* the balance check of generate2DStructure
Gate2D(p) ==
    IF p = <<>> THEN ToastNoProfile
    ELSE IF p[1].token_points < Cost2D THEN ToastInsufficient
    ELSE ""

\* mutant: only the presence of a profile is checked
Gate3DNoBalanceCheck(p) ==
    IF p = <<>> THEN ToastNoProfile ELSE ""

\* the balance check of open3DVisualization
Gate3D(p) ==
    IF p = <<>> THEN ToastNoProfile
    ELSE IF p[1].token_points < Cost3D THEN ToastInsufficient
    ELSE ""

\* mutant: every approach is checked against the price of the classical one
ApproachGateOnePrice(p, approach) ==
    IF p = <<>> THEN ToastNoProfile
    ELSE IF p[1].token_points < CostClassical THEN ToastInsufficient
    ELSE ""

\* the balance check of handleApproachSelection
ApproachGate(p, approach) ==
    IF p = <<>> THEN ToastNoProfile
    ELSE IF p[1].token_points < POINTS_COST(approach) THEN ToastInsufficient
    ELSE ""

Request(endpoint, ctx, cost) ==
    <<[endpoint |-> endpoint, ctx |-> ctx, cost |-> cost]>>

\* ------------------------------------------------------ Smiles page -----
\* handleProcessSmiles up to its await fetch
HandleProcessSmiles(smilesInput) ==
    /\ mounted
    /\ ~smiles.isProcessing
    /\ IF smilesInput = ""
       THEN /\ effects' = [NoEffects EXCEPT
                             !.call = "handleProcessSmiles",
                             !.toast = "Please enter a SMILES notation"]
            /\ UNCHANGED <<smiles, requests, inputs>>
       ELSE IF SmilesGate(profile) # ""
       THEN /\ effects' = [NoEffects EXCEPT
                             !.call = "handleProcessSmiles",
                             !.toast = SmilesGate(profile)]
            /\ UNCHANGED <<smiles, requests, inputs>>
       ELSE /\ inputs < MaxInputs
            /\ inputs' = inputs + 1
            /\ smiles' = [smiles EXCEPT !.isProcessing = TRUE]
            /\ requests' = [requests EXCEPT !["smiles"] =
                              Request("/api/process-smiles", profile, SmilesCost)]
            /\ effects' = [NoEffects EXCEPT
                             !.call = "handleProcessSmiles",
                             !.requests = <<"/api/process-smiles">>]
    /\ UNCHANGED <<authVars, store, pendingGetUser, now, index, viewer>>

\* handleProcessSmiles from the response of the backend to its end
SmilesResponse(o) ==
    /\ requests["smiles"] # <<>>
    /\ LET r == requests["smiles"][1]
           newPoints == r.ctx[1].token_points - r.cost
       IN  IF ~o.threw /\ o.ok /\ o.success
           THEN /\ UpdatePoints(r.ctx, newPoints)
                /\ effects' = [NoEffects EXCEPT
                                 !.call = "handleProcessSmiles.resume",
                                 !.outcome = <<o>>,
                                 !.updatePoints = Call(r.ctx, newPoints),
                                 !.writes = UpdatePointsWrites(r.ctx),
                                 !.toast = "points deducted"]
           ELSE /\ effects' = [NoEffects EXCEPT
                                 !.call = "handleProcessSmiles.resume",
                                 !.outcome = <<o>>,
                                 !.toast = "Failed to process SMILES"]
                /\ UNCHANGED <<profile, store>>
    /\ smiles' = [smiles EXCEPT !.isProcessing = FALSE]
    /\ requests' = [requests EXCEPT !["smiles"] = <<>>]
    /\ UNCHANGED <<mounted, getSession, session, user, loading,
                   pendingGetUser, now, index, viewer, inputs>>

\* ------------------------------------------------ Molecule3DViewer ------
\* mutant: a structure already generated is generated again
Generate2DStructureNoToggle(v) ==
    /\ mounted
    /\ ~viewer[v].isLoading
    /\ IF Gate2D(profile) # ""
       THEN /\ effects' = [NoEffects EXCEPT
                             !.call = "generate2DStructure", !.arg = v,
                             !.toast = Gate2D(profile)]
            /\ UNCHANGED <<viewer, requests, inputs>>
       ELSE /\ inputs < MaxInputs
            /\ inputs' = inputs + 1
            /\ viewer' = [viewer EXCEPT ![v].isLoading = TRUE]
            /\ requests' = [requests EXCEPT ![v] =
                              Request("/api/generate-2d-structure", profile,
                                      Cost2D)]
            /\ effects' = [NoEffects EXCEPT
                             !.call = "generate2DStructure", !.arg = v,
                             !.requests = <<"/api/generate-2d-structure">>]
    /\ UNCHANGED <<authVars, store, pendingGetUser, now, smiles, index>>

\* generate2DStructure up to its await fetch
Generate2DStructure(v) ==
    /\ mounted
    /\ ~viewer[v].isLoading
    /\ IF viewer[v].structure2D
       THEN /\ viewer' = [viewer EXCEPT ![v].showVisualization = ~@]
            /\ effects' = [NoEffects EXCEPT
                             !.call = "generate2DStructure", !.arg = v]
            /\ UNCHANGED <<requests, inputs>>
       ELSE IF Gate2D(profile) # ""
       THEN /\ effects' = [NoEffects EXCEPT
                             !.call = "generate2DStructure", !.arg = v,
                             !.toast = Gate2D(profile)]
            /\ UNCHANGED <<viewer, requests, inputs>>
       ELSE /\ inputs < MaxInputs
            /\ inputs' = inputs + 1
            /\ viewer' = [viewer EXCEPT ![v].isLoading = TRUE]
            /\ requests' = [requests EXCEPT ![v] =
                              Request("/api/generate-2d-structure", profile,
                                      Cost2D)]
            /\ effects' = [NoEffects EXCEPT
                             !.call = "generate2DStructure", !.arg = v,
                             !.requests = <<"/api/generate-2d-structure">>]
    /\ UNCHANGED <<authVars, store, pendingGetUser, now, smiles, index>>

\* generate2DStructure from the response of the backend to its end
Structure2DResponse(v, o) ==
    /\ requests[v] # <<>>
    /\ requests[v][1].endpoint = "/api/generate-2d-structure"
    /\ LET r == requests[v][1]
           newPoints == r.ctx[1].token_points - r.cost
       IN  IF ~o.threw /\ o.ok /\ o.success /\ o.payload
           THEN /\ viewer' = [viewer EXCEPT ![v] =
                                [isLoading |-> FALSE, structure2D |-> TRUE,
                                 showVisualization |-> TRUE]]
                /\ UpdatePoints(r.ctx, newPoints)
                /\ effects' = [NoEffects EXCEPT
                                 !.call = "generate2DStructure.resume",
                                 !.arg = v,
                                 !.outcome = <<o>>,
                                 !.updatePoints = Call(r.ctx, newPoints),
                                 !.writes = UpdatePointsWrites(r.ctx),
                                 !.toast = "points deducted"]
           ELSE /\ viewer' = [viewer EXCEPT ![v].isLoading = FALSE]
                /\ effects' = [NoEffects EXCEPT
                                 !.call = "generate2DStructure.resume",
                                 !.outcome = <<o>>,
                                 !.arg = v,
                                 !.toast = "Failed to generate structure"]
                /\ UNCHANGED <<profile, store>>
    /\ requests' = [requests EXCEPT ![v] = <<>>]
    /\ UNCHANGED <<mounted, getSession, session, user, loading,
                   pendingGetUser, now, smiles, index, inputs>>

\* open3DVisualization up to its await fetch
Open3DVisualization(v) ==
    /\ mounted
    /\ ~viewer[v].isLoading
    /\ IF Gate3D(profile) # ""
       THEN /\ effects' = [NoEffects EXCEPT
                             !.call = "open3DVisualization", !.arg = v,
                             !.toast = Gate3D(profile)]
            /\ UNCHANGED <<viewer, requests, inputs>>
       ELSE /\ inputs < MaxInputs
            /\ inputs' = inputs + 1
            /\ viewer' = [viewer EXCEPT ![v].isLoading = TRUE]
            /\ requests' = [requests EXCEPT ![v] =
                              Request("/api/process-smiles", profile, Cost3D)]
            /\ effects' = [NoEffects EXCEPT
                             !.call = "open3DVisualization", !.arg = v,
                             !.requests = <<"/api/process-smiles">>]
    /\ UNCHANGED <<authVars, store, pendingGetUser, now, smiles, index>>

\* mutant: the debit follows every OK response, whatever it reports
Visualization3DResponseChargesFailure(v, o) ==
    /\ requests[v] # <<>>
    /\ requests[v][1].endpoint = "/api/process-smiles"
    /\ LET r == requests[v][1]
           newPoints == r.ctx[1].token_points - r.cost
       IN  IF ~o.threw /\ o.ok
           THEN /\ UpdatePoints(r.ctx, newPoints)
                /\ effects' = [NoEffects EXCEPT
                                 !.call = "open3DVisualization.resume",
                                 !.arg = v,
                                 !.outcome = <<o>>,
                                 !.updatePoints = Call(r.ctx, newPoints),
                                 !.writes = UpdatePointsWrites(r.ctx),
                                 !.toast = "points deducted"]
           ELSE /\ effects' = [NoEffects EXCEPT
                                 !.call = "open3DVisualization.resume",
                                 !.outcome = <<o>>,
                                 !.arg = v,
                                 !.toast = "Failed to generate 3D visualization"]
                /\ UNCHANGED <<profile, store>>
    /\ viewer' = [viewer EXCEPT ![v].isLoading = FALSE]
    /\ requests' = [requests EXCEPT ![v] = <<>>]
    /\ UNCHANGED <<mounted, getSession, session, user, loading,
                   pendingGetUser, now, smiles, index, inputs>>

\* open3DVisualization from the response of the backend to its end
Visualization3DResponse(v, o) ==
    /\ requests[v] # <<>>
    /\ requests[v][1].endpoint = "/api/process-smiles"
    /\ LET r == requests[v][1]
           newPoints == r.ctx[1].token_points - r.cost
       IN  IF ~o.threw /\ o.ok /\ o.success /\ o.payload
           THEN /\ UpdatePoints(r.ctx, newPoints)
                /\ effects' = [NoEffects EXCEPT
                                 !.call = "open3DVisualization.resume",
                                 !.arg = v,
                                 !.outcome = <<o>>,
                                 !.updatePoints = Call(r.ctx, newPoints),
                                 !.writes = UpdatePointsWrites(r.ctx),
                                 !.toast = "points deducted"]
           ELSE /\ effects' = [NoEffects EXCEPT
                                 !.call = "open3DVisualization.resume",
                                 !.outcome = <<o>>,
                                 !.arg = v,
                                 !.toast = "Failed to generate 3D visualization"]
                /\ UNCHANGED <<profile, store>>
    /\ viewer' = [viewer EXCEPT ![v].isLoading = FALSE]
    /\ requests' = [requests EXCEPT ![v] = <<>>]
    /\ UNCHANGED <<mounted, getSession, session, user, loading,
                   pendingGetUser, now, smiles, index, inputs>>

\* -------------------------------------------------------- Index page ----
\* handleFileUpload: the FileUpload component hands over a file
HandleFileUpload ==
    /\ mounted
    /\ ~index.showApproachSelection
    /\ index' = [index EXCEPT !.selectedFile = TRUE,
                              !.showApproachSelection = TRUE]
    /\ effects' = [NoEffects EXCEPT !.call = "handleFileUpload"]
    /\ UNCHANGED <<authVars, store, pendingGetUser, now, smiles, viewer,
                   requests, inputs>>

\* the Cancel button of the approach dialog
CancelApproachSelection ==
    /\ mounted
    /\ index.showApproachSelection /\ index.selectedFile
    /\ index' = [index EXCEPT !.selectedFile = FALSE,
                              !.showApproachSelection = FALSE]
    /\ effects' = [NoEffects EXCEPT !.call = "cancelApproachSelection"]
    /\ UNCHANGED <<authVars, store, pendingGetUser, now, smiles, viewer,
                   requests, inputs>>

\* handleApproachSelection up to its await fetch: the debit comes first
HandleApproachSelection(approach) ==
    /\ mounted
    /\ index.showApproachSelection /\ index.selectedFile
    /\ ~index.isAnalyzing
    /\ IF ApproachGate(profile, approach) # ""
       THEN /\ effects' = [NoEffects EXCEPT
                             !.call = "handleApproachSelection",
                             !.arg = approach,
                             !.toast = ApproachGate(profile, approach)]
            /\ UNCHANGED <<profile, store, index, requests, inputs>>
       ELSE LET cost == POINTS_COST(approach)
                newPoints == profile[1].token_points - cost
            IN  /\ inputs < MaxInputs
                /\ inputs' = inputs + 1
                /\ UpdatePoints(profile, newPoints)
                /\ index' = [index EXCEPT !.isAnalyzing = TRUE]
                /\ requests' = [requests EXCEPT !["index"] =
                                  Request("/api/upload-and-process", <<>>, cost)]
                /\ effects' = [NoEffects EXCEPT
                                 !.call = "handleApproachSelection",
                                 !.arg = approach,
                                 !.updatePoints = Call(profile, newPoints),
                                 !.writes = UpdatePointsWrites(profile),
                                 !.requests = <<"/api/upload-and-process">>,
                                 !.toast = "points deducted"]
    /\ UNCHANGED <<mounted, getSession, session, user, loading,
                   pendingGetUser, now, smiles, viewer>>

\* mutant: a failed analysis gives the price back
ApproachResponseRefunds(o) ==
    /\ requests["index"] # <<>>
    /\ IF ~o.threw /\ o.ok
       THEN /\ index' = [selectedFile |-> FALSE,
                         showApproachSelection |-> FALSE,
                         isAnalyzing |-> FALSE]
            /\ effects' = [NoEffects EXCEPT
                             !.call = "handleApproachSelection.resume",
                             !.outcome = <<o>>,
                             !.toast = "analysis completed successfully"]
            /\ UNCHANGED <<profile, store>>
       ELSE /\ index' = [index EXCEPT !.isAnalyzing = FALSE]
            /\ UpdatePoints(profile,
                            IF profile = <<>> THEN 0
                            ELSE profile[1].token_points
                                   + requests["index"][1].cost)
            /\ effects' = [NoEffects EXCEPT
                             !.call = "handleApproachSelection.resume",
                             !.outcome = <<o>>,
                             !.writes = UpdatePointsWrites(profile),
                             !.toast = "Analysis failed"]
    /\ requests' = [requests EXCEPT !["index"] = <<>>]
    /\ UNCHANGED <<mounted, getSession, session, user, loading,
                   pendingGetUser, now, smiles, viewer, inputs>>

\* mutant: the file and the dialog are reset after a failure too
ApproachResponseClosesDialog(o) ==
    /\ requests["index"] # <<>>
    /\ index' = [selectedFile |-> FALSE,
                 showApproachSelection |-> FALSE,
                 isAnalyzing |-> FALSE]
    /\ effects' = [NoEffects EXCEPT
                     !.call = "handleApproachSelection.resume",
                     !.outcome = <<o>>,
                     !.toast = IF ~o.threw /\ o.ok
                               THEN "analysis completed successfully"
                               ELSE "Analysis failed"]
    /\ requests' = [requests EXCEPT !["index"] = <<>>]
    /\ UNCHANGED <<authVars, store, pendingGetUser, now, smiles, viewer,
                   inputs>>

\* handleApproachSelection from the response of the backend to its end
ApproachResponse(o) ==
    /\ requests["index"] # <<>>
    /\ IF ~o.threw /\ o.ok
       THEN /\ index' = [selectedFile |-> FALSE,
                         showApproachSelection |-> FALSE,
                         isAnalyzing |-> FALSE]
            /\ effects' = [NoEffects EXCEPT
                             !.call = "handleApproachSelection.resume",
                             !.outcome = <<o>>,
                             !.toast = "analysis completed successfully"]
       ELSE /\ index' = [index EXCEPT !.isAnalyzing = FALSE]
            /\ effects' = [NoEffects EXCEPT
                             !.call = "handleApproachSelection.resume",
                             !.outcome = <<o>>,
                             !.toast = "Analysis failed"]
    /\ requests' = [requests EXCEPT !["index"] = <<>>]
    /\ UNCHANGED <<authVars, store, pendingGetUser, now, smiles, viewer,
                   inputs>>

\* ------------------------------------- standalone Structure2DViewer ----
\* handleGenerate2D up to its await fetch: the component reads no profile
\* and has no balance check; isLoading is true exactly while its request
\* is awaited
HandleGenerate2D(smilesInput) ==
    /\ mounted
    /\ requests["structure2D"] = <<>>
    /\ IF smilesInput = ""
       THEN /\ effects' = [NoEffects EXCEPT
                             !.call = "handleGenerate2D",
                             !.toast = "Please enter a SMILES notation"]
            /\ UNCHANGED <<requests, inputs>>
       ELSE /\ inputs < MaxInputs
            /\ inputs' = inputs + 1
            /\ requests' = [requests EXCEPT !["structure2D"] =
                              Request("/api/generate-2d-structure", <<>>, 0)]
            /\ effects' = [NoEffects EXCEPT
                             !.call = "handleGenerate2D",
                             !.requests = <<"/api/generate-2d-structure">>]
    /\ UNCHANGED <<authVars, store, pendingGetUser, now, uiVars>>

\* handleGenerate2D from the response of the backend to its end
Generate2DResponse(o) ==
    /\ requests["structure2D"] # <<>>
    /\ requests' = [requests EXCEPT !["structure2D"] = <<>>]
    /\ effects' = [NoEffects EXCEPT
                     !.call = "handleGenerate2D.resume",
                     !.outcome = <<o>>,
                     !.toast = IF o.threw THEN "Network error occurred"
                               ELSE IF o.ok /\ o.success
                               THEN "2D structure generated successfully!"
                               ELSE "Failed to generate 2D structure"]
    /\ UNCHANGED <<authVars, store, pendingGetUser, now, uiVars, inputs>>

Next ==
    \/ \E s \in Subjects \cup {NoSession} : GetSessionThen(s)
    \/ GetSessionReject
    \/ \E s \in Subjects \cup {NoSession} : OnAuthStateChange(s)
    \/ \E s \in Subjects, o \in GetUserOutcomes, date \in 1..MaxClock :
          GetUserReturn(s, o, date)
    \/ \E smilesInput \in {"", "CCO"} : HandleProcessSmiles(smilesInput)
    \/ \E o \in BackendOutcomes : SmilesResponse(o)
    \/ \E v \in Viewers : Generate2DStructure(v)
    \/ \E v \in Viewers, o \in BackendOutcomes : Structure2DResponse(v, o)
    \/ \E v \in Viewers : Open3DVisualization(v)
    \/ \E v \in Viewers, o \in BackendOutcomes : Visualization3DResponse(v, o)
    \/ HandleFileUpload
    \/ CancelApproachSelection
    \/ \E approach \in Approaches : HandleApproachSelection(approach)
    \/ \E o \in BackendOutcomes : ApproachResponse(o)

Spec == Init /\ [][Next]_vars

\* every getUser call of the identity provider eventually returns or throws
SpecFair ==
    Spec /\ WF_vars(\E s \in Subjects, o \in GetUserOutcomes,
                        date \in 1..MaxClock : GetUserReturn(s, o, date))

\* the arguments a direct updatePoints call is tried with
PointsArguments == {0, 500}

\* the provider with a consumer that calls updatePoints directly, whatever
\* the held profile
NextLedger ==
    \/ Next
    \/ \E newPoints \in PointsArguments : UpdatePointsCall(newPoints)

SpecLedger == Init /\ [][NextLedger]_vars

\* the provider with pages that call signIn, signUp and signOut
NextAuth ==
    \/ Next
    \/ \E error \in BOOLEAN : SignIn(error)
    \/ \E outcome \in SignUpOutcomes : SignUp(outcome)
    \/ \E error \in BOOLEAN : SignOut(error)

SpecAuth == Init /\ [][NextAuth]_vars

\* the whole application: the pages of Next, the Structure2D page with its
\* standalone viewer, the provider's unmounting, and signIn, signUp and
\* signOut
NextApp ==
    \/ NextAuth
    \/ Unmount
    \/ \E smilesInput \in {"", "CCO"} : HandleGenerate2D(smilesInput)
    \/ \E o \in BackendOutcomes : Generate2DResponse(o)

SpecApp == Init /\ [][NextApp]_vars

\* ------------------------------------------------------------ claims ----
\* the record of subject s in the store st, as the members of its text
RecordIn(st, s) ==
    LET text == st[Key(s)]
    IN  [id |-> text[1][2], email |-> text[2][2],
         token_points |-> text[3][2], created_at |-> text[4][2]]

Stored(s) == RecordIn(store, s)

GatedHandlers ==
    {"handleProcessSmiles", "generate2DStructure", "open3DVisualization",
     "handleApproachSelection"}

ResolvingCalls == {"getSession.then", "onAuthStateChange"}

\* C1: the balance of the held profile and of every stored record is a
\* non-negative integer, and no updatePoints call gets a negative argument,
\* also when paid operations overlap and each debits the balance it read at
\* its gate.
C1_BalanceNeverNegative ==
    /\ profile # <<>> => profile[1].token_points \in Nat
    /\ \A s \in Subjects :
          store[Key(s)] # <<>> => Stored(s).token_points \in Nat
    /\ \A i \in 1..Len(effects.updatePoints) :
          effects.updatePoints[i].newPoints >= 0

\* C1 witness: a debit has just been applied while another operation that
\* read a larger balance at its gate is still awaiting the backend.
C1_Witness ==
    /\ effects.updatePoints # <<>>
    /\ profile # <<>>
    /\ \E c \in Clients :
          /\ requests[c] # <<>>
          /\ requests[c][1].ctx # <<>>
          /\ requests[c][1].ctx[1].id = profile[1].id
          /\ requests[c][1].ctx[1].token_points > profile[1].token_points

\* C2: a profile record of a subject is constructed and written at most
\* once: a resolution constructs a record only when the store holds none
\* for its subject, every other resolution only reads the existing one.
C2_ConstructedAtMostOnce ==
    [][effects'.constructed # <<>> => store[Key(effects'.arg)] = <<>>]_vars

\* C3: the first write wins: a resolution that completes when a record of
\* its subject is already persisted leaves that record as it is.
C3_FirstWriteWins ==
    [][\A s \in Subjects :
          (/\ effects'.call = "fetchUserProfile.resume"
           /\ effects'.arg = s
           /\ store[Key(s)] # <<>>)
          => store'[Key(s)] = store[Key(s)]]_vars

\* C4: once a record of a subject is persisted, its id, email and
\* created_at never change, in the store or in the held profile.
C4_IdentityImmutable ==
    [][\A s \in Subjects :
          store[Key(s)] # <<>> =>
             /\ store'[Key(s)] # <<>>
             /\ Stored(s)'.id = Stored(s).id
             /\ Stored(s)'.email = Stored(s).email
             /\ Stored(s)'.created_at = Stored(s).created_at
             /\ (profile' # <<>> /\ profile'[1].id = s) =>
                   /\ profile'[1].email = Stored(s).email
                   /\ profile'[1].created_at = Stored(s).created_at]_vars

\* C5: the persisted balance of an existing record changes only in a step
\* that calls updatePoints; a resolution never writes a balance over it.
C5_BalanceChangedOnlyByUpdatePoints ==
    [][\A s \in Subjects :
          (/\ store[Key(s)] # <<>>
           /\ store'[Key(s)] # <<>>
           /\ Stored(s)'.token_points # Stored(s).token_points)
          => effects'.updatePoints # <<>>]_vars

\* C6: every profile fetchUserProfile constructs has the id of the subject
\* it was called with, which is not empty, and 1000 points; when getUser
\* returned, its email is the email returned, or "" when there was none.
C6_ConstructedProfile ==
    \A i \in 1..Len(effects.constructed) :
       LET p == effects.constructed[i]
           o == effects.outcome[1]
       IN  /\ p.id = effects.arg
           /\ p.id # ""
           /\ p.token_points = 1000
           /\ ~o.threw =>
                 p.email = IF o.user # <<>> /\ o.user[1].email \in Emails
                           THEN o.user[1].email ELSE ""

\* C6 witness: subject u1 resolved with the email a@b.com.
C6_Witness ==
    /\ effects.constructed # <<>>
    /\ effects.constructed[1].id = "u1"
    /\ effects.constructed[1].email = "a@b.com"
    /\ store[Key("u1")] = JSONstringify(effects.constructed[1])

\* C7: when getUser throws, fetchUserProfile still persists and holds a
\* profile with the subject's id, an empty email and 1000 points, and no
\* error leaves it.
C7_FallbackProfile ==
    (/\ effects.call = "fetchUserProfile.resume"
     /\ effects.outcome[1].threw)
    => /\ ~effects.threw
       /\ store[Key(effects.arg)] # <<>>
       /\ Stored(effects.arg).id = effects.arg
       /\ Stored(effects.arg).email = ""
       /\ Stored(effects.arg).token_points = 1000
       /\ profile # <<>>
       /\ profile[1].id = effects.arg
       /\ profile[1].email = ""
       /\ profile[1].token_points = 1000

\* C7 witness: a resolution has just resumed from a getUser that threw.
C7_Witness ==
    /\ effects.call = "fetchUserProfile.resume"
    /\ effects.outcome[1].threw
    /\ profile # <<>>
    /\ profile[1].id = effects.arg

\* C8: resolving a subject whose record is in the store makes the held
\* profile equal to that record in all four fields, calls getUser not at
\* all and writes nothing to the store.
C8_RoundTrip ==
    [][\A s \in Subjects :
          (/\ effects'.call \in ResolvingCalls
           /\ effects'.arg = s
           /\ store[Key(s)] # <<>>)
          => /\ profile' # <<>>
             /\ profile'[1].id = Stored(s).id
             /\ profile'[1].email = Stored(s).email
             /\ profile'[1].token_points = Stored(s).token_points
             /\ profile'[1].created_at = Stored(s).created_at
             /\ effects'.getUser = 0
             /\ effects'.writes = <<>>
             /\ store' = store]_vars

\* C8 witness: a session event has reloaded a record that carries a debit.
C8_Witness ==
    /\ effects.call = "onAuthStateChange"
    /\ effects.arg \in Subjects
    /\ profile # <<>>
    /\ profile[1].id = effects.arg
    /\ profile[1].token_points \notin {StartingBalance, InitBalance}
    /\ store[Key(effects.arg)] = JSONstringify(profile[1])

\* C9: updatePoints(n), called through a context value that holds a
\* profile, leaves the held profile and the store record under that
\* profile's id with token_points n and the id, email and created_at of that
\* profile; no other record changes and the store is written once.
C9_UpdatePointsSetsBalance ==
    [][\A i \in 1..Len(effects'.updatePoints) :
          LET call == effects'.updatePoints[i]
              p == call.profile[1]
          IN  call.profile # <<>> =>
                 /\ profile' =
                       <<UserProfile(p.id, p.email, call.newPoints,
                                     p.created_at)>>
                 /\ store'[Key(p.id)] # <<>>
                 /\ RecordIn(store', p.id) = profile'[1]
                 /\ \A s \in Subjects \ {p.id} :
                       store'[Key(s)] = store[Key(s)]
                 /\ effects'.writes = <<Key(p.id)>>]_vars

\* C9 witness: a debit of u1 has been applied while u2 has a record too.
C9_Witness ==
    /\ effects.updatePoints # <<>>
    /\ effects.updatePoints[1].profile # <<>>
    /\ effects.updatePoints[1].profile[1].id = "u1"
    /\ profile # <<>>
    /\ profile[1].token_points = effects.updatePoints[1].newPoints
    /\ store[Key("u2")] # <<>>

\* the price the handler named call charges (arg: the approach)
PriceOf(call, arg) ==
    CASE call = "handleProcessSmiles" -> 7
      [] call = "generate2DStructure" -> 1
      [] call = "open3DVisualization" -> 3
      [] call = "handleApproachSelection" /\ arg = "classical" -> 20
      [] call = "handleApproachSelection" /\ arg = "quantum" -> 35
      [] call = "handleApproachSelection" /\ arg = "both" -> 50

\* C10: a gated handler invoked while no profile is held, or while the held
\* balance is below its price, issues no backend request, does not call
\* updatePoints and leaves the held profile and the store as they are.
C10_GateRefuses ==
    [][(/\ effects'.call \in GatedHandlers
        /\ \/ profile = <<>>
           \/ profile[1].token_points < PriceOf(effects'.call, effects'.arg))
       => /\ effects'.requests = <<>>
          /\ effects'.updatePoints = <<>>
          /\ requests' = requests
          /\ profile' = profile
          /\ store' = store]_vars

\* C10 witness: a balance below 35 has been refused the quantum analysis.
C10_Witness ==
    /\ effects.call = "handleApproachSelection"
    /\ effects.arg = "quantum"
    /\ effects.toast = ToastInsufficient
    /\ profile # <<>>
    /\ profile[1].token_points < CostQuantum
    /\ requests["index"] = <<>>

\* the handlers that send a request to the analysis backend
RequestingHandlers == GatedHandlers \cup {"handleGenerate2D"}

\* the price of the feature the handler named call requests
FeaturePrice(call, arg) ==
    IF call = "handleGenerate2D" THEN Cost2D ELSE PriceOf(call, arg)

\* C11: every step that sends a request to the analysis backend starts in a
\* state where a profile is held whose balance is at least the price of the
\* requested feature; this includes the standalone Structure2DViewer.
C11_RequestOnlyWhenAffordable ==
    [][effects'.requests # <<>>
       => /\ effects'.call \in RequestingHandlers
          /\ profile # <<>>
          /\ profile[1].token_points
               >= FeaturePrice(effects'.call, effects'.arg)]_vars

\* the clients whose handler debits after the response of the backend
ChargeAfterClients == {"smiles"} \cup Viewers

\* the price of the charge-after operation of client c whose request is r
ChargeAfterPrice(c, r) ==
    IF c = "smiles" THEN 7
    ELSE IF r.endpoint = "/api/generate-2d-structure" THEN 1 ELSE 3

\* the response o makes the charge-after handler of client c (request r)
\* debit: OK and success, and for the viewer the payload it displays
BackendSucceeded(c, r, o) ==
    /\ ~o.threw /\ o.ok /\ o.success
    /\ c \in Viewers => o.payload

\* client c's request completes in this step, with a response
Completes(c) ==
    /\ requests[c] # <<>>
    /\ requests'[c] = <<>>
    /\ effects'.outcome # <<>>

\* no other request and no profile resolution is in flight beside c's
NothingOverlaps(c) ==
    /\ \A d \in Clients \ {c} : requests[d] = <<>>
    /\ \A s \in Subjects : pendingGetUser[s] = 0

\* C12: a charge-after operation (SMILES 7, 2D 1, 3D 3) that started with
\* held balance b, b >= p, whose backend call succeeds while nothing else is
\* in flight, leaves the held and the persisted balance at exactly b - p,
\* with exactly one store write, to the record of the profile's subject.
C12_SingleChargeAfter ==
    [][\A c \in ChargeAfterClients :
         (/\ Completes(c)
          /\ BackendSucceeded(c, requests[c][1], effects'.outcome[1])
          /\ NothingOverlaps(c))
         => LET r == requests[c][1]
                b == r.ctx[1].token_points
                p == ChargeAfterPrice(c, r)
            IN  /\ b >= p
                /\ profile' # <<>>
                /\ profile'[1].token_points = b - p
                /\ RecordIn(store', r.ctx[1].id).token_points = b - p
                /\ effects'.writes = <<Key(r.ctx[1].id)>>
                /\ \A k \in Keys \ {Key(r.ctx[1].id)} :
                      store'[k] = store[k]]_vars

\* C12 witness: a 2D view started at the boundary, balance 1 = price 1, has
\* succeeded with nothing else in flight; the balance held and stored is 0.
C12_Witness ==
    /\ effects.call = "generate2DStructure.resume"
    /\ effects.updatePoints # <<>>
    /\ effects.updatePoints[1].profile[1].token_points = Cost2D
    /\ \A c \in Clients : requests[c] = <<>>
    /\ \A s \in Subjects : pendingGetUser[s] = 0
    /\ profile # <<>>
    /\ profile[1].token_points = 0
    /\ Stored(profile[1].id).token_points = 0

\* C13: when the request of a charge-after handler (handleProcessSmiles,
\* generate2DStructure, open3DVisualization) throws, or its response is not
\* OK, reports success = false or lacks the payload the handler requires,
\* updatePoints is not called and the held profile and the store stay as
\* they were.
C13_FailureDoesNotCharge ==
    [][\A c \in ChargeAfterClients :
         (/\ Completes(c)
          /\ ~BackendSucceeded(c, requests[c][1], effects'.outcome[1]))
         => /\ effects'.updatePoints = <<>>
            /\ effects'.writes = <<>>
            /\ profile' = profile
            /\ store' = store]_vars

\* C13 witness: a 3D view whose response was OK with success = true but
\* without isomers has ended, and the balance held and stored is the one
\* the profile was created with.
C13_Witness ==
    /\ effects.call = "open3DVisualization.resume"
    /\ effects.outcome = <<[threw |-> FALSE, ok |-> TRUE, success |-> TRUE,
                            payload |-> FALSE]>>
    /\ effects.updatePoints = <<>>
    /\ profile # <<>>
    /\ profile[1].token_points = StartingBalance
    /\ Stored(profile[1].id).token_points = StartingBalance

ChargeAfterHandlers ==
    {"handleProcessSmiles", "generate2DStructure", "open3DVisualization"}

\* C14: the step of handleApproachSelection that issues the request to
\* /api/upload-and-process has already called updatePoints, and the store
\* holds the balance reduced by the price of the approach while the request
\* is issued; the steps of the SMILES, 2D and 3D handlers that issue a
\* request write nothing, and their debit comes only in a step in which
\* the response of the backend arrives; the response of the file analysis,
\* failed or not, leaves the held profile and the store as they are, so a
\* failed analysis does not give the price back.
C14_DebitOrder ==
    [][/\ (effects'.call = "handleApproachSelection"
            /\ effects'.requests # <<>>)
          => /\ effects'.updatePoints # <<>>
             /\ effects'.updatePoints[1].newPoints
                  = profile[1].token_points - POINTS_COST(effects'.arg)
             /\ RecordIn(store', profile[1].id).token_points
                  = profile[1].token_points - POINTS_COST(effects'.arg)
       /\ (effects'.call \in ChargeAfterHandlers
            /\ effects'.requests # <<>>)
          => /\ effects'.updatePoints = <<>>
             /\ profile' = profile
             /\ store' = store
       /\ (effects'.updatePoints # <<>>
            /\ effects'.call # "handleApproachSelection")
          => \E c \in ChargeAfterClients :
                /\ Completes(c)
                /\ BackendSucceeded(c, requests[c][1], effects'.outcome[1])
       /\ (requests["index"] # <<>> /\ requests'["index"] = <<>>)
          => /\ effects'.updatePoints = <<>>
             /\ effects'.writes = <<>>
             /\ profile' = profile
             /\ store' = store]_vars

\* C14 witness: the classical analysis of a fresh profile has failed, and
\* the balance held and stored is still the one reduced by its price.
C14_Witness ==
    /\ effects.call = "handleApproachSelection.resume"
    /\ effects.outcome # <<>>
    /\ ~effects.outcome[1].ok
    /\ profile # <<>>
    /\ profile[1].token_points = StartingBalance - CostClassical
    /\ Stored(profile[1].id).token_points = StartingBalance - CostClassical

\* C15: in every state with no session no profile is held, also when a
\* profile resolution or a paid operation was in flight at sign-out and
\* completes afterwards.
C15_NoProfileWithoutSession == session = NoSession => profile = <<>>

\* C16: once a non-empty session has been delivered, then, every getUser
\* call eventually returning or throwing, eventually a profile is held and
\* loading is false.
C16_ProfileEventuallyHeld ==
    (session # NoSession) ~> (profile # <<>> /\ ~loading)

\* C16 witness: the getUser call made for the session's subject has thrown,
\* and the fallback profile of that subject is held with loading false.
C16_Witness ==
    /\ effects.call = "fetchUserProfile.resume"
    /\ effects.outcome # <<>>
    /\ effects.outcome[1].threw
    /\ session = effects.arg
    /\ profile # <<>>
    /\ profile[1].id = session
    /\ ~loading

\* what the session observer delivers: the result of the initial
\* getSession, a session-change event, the resumption of a resolution
Deliveries == ResolvingCalls \cup {"fetchUserProfile.resume"}

\* C17: once the provider has unmounted and cancelled its subscription, no
\* delivery (session-change event, result of the initial getSession,
\* resumption of a profile resolution) changes the session, the user or
\* the held profile, or writes the store.
C17_NothingAfterUnsubscribe ==
    [][(~mounted /\ effects'.call \in Deliveries)
       => /\ session' = session
          /\ user' = user
          /\ profile' = profile
          /\ store' = store
          /\ effects'.writes = <<>>]_vars

\* C18: when the initial getSession fails, the observer is as with no
\* session: loading has become false and no error has left the observer,
\* and, no session event having been delivered, session, user and profile
\* are absent.
C18_GetSessionFailureIsNoSession ==
    effects.call = "getSession.reject"
    => /\ ~loading
       /\ ~effects.threw
       /\ inputs = 0 => /\ session = NoSession
                         /\ user = NoSession
                         /\ profile = <<>>

\* C19: no step deletes a record: a key of the store that holds a record
\* holds one after every step, across sign-out, sign-in as another subject
\* and debits.
C19_RecordNeverDeleted ==
    [][\A k \in Keys : store[k] # <<>> => store'[k] # <<>>]_vars

\* C19 witness: u1 has been debited and has signed out, and the store still
\* holds the debited record of u1 beside the record of the other subject.
C19_Witness ==
    /\ effects.call = "onAuthStateChange"
    /\ session = NoSession
    /\ profile = <<>>
    /\ store[Key("u1")] # <<>>
    /\ Stored("u1").token_points < StartingBalance
    /\ store[Key(Returning)] # <<>>

\* C20 (lost update): when a charge-after operation that read balance b
\* succeeds after the debit of another operation has been applied to the
\* held profile of the same subject, the balance held and stored becomes
\* b minus its own price: the other debit is lost.
C20_LostUpdate ==
    [][\A c \in ChargeAfterClients :
         (/\ Completes(c)
          /\ BackendSucceeded(c, requests[c][1], effects'.outcome[1])
          /\ profile # <<>>
          /\ profile[1].id = requests[c][1].ctx[1].id
          /\ profile[1].token_points < requests[c][1].ctx[1].token_points)
         => LET r == requests[c][1]
                b == r.ctx[1].token_points
                p == ChargeAfterPrice(c, r)
            IN  /\ profile'[1].token_points = b - p
                /\ RecordIn(store', r.ctx[1].id).token_points = b - p
                /\ profile'[1].token_points > profile[1].token_points - p]_vars

\* C20 witness: the 2D view of viewer v1 has succeeded (its structure is
\* shown, price 1) and the 3D view of viewer v2, started at the same
\* balance 1000, has succeeded last: the balance is 997, not 996.
C20_Witness ==
    /\ effects.call = "open3DVisualization.resume"
    /\ effects.arg = "v2"
    /\ viewer["v1"].structure2D
    /\ effects.updatePoints # <<>>
    /\ effects.updatePoints[1].profile[1].token_points = StartingBalance
    /\ profile # <<>>
    /\ profile[1].token_points = StartingBalance - Cost3D
    /\ Stored(profile[1].id).token_points = StartingBalance - Cost3D

\* no request and no profile resolution is in flight
NothingInFlight ==
    /\ \A d \in Clients : requests[d] = <<>>
    /\ \A s \in Subjects : pendingGetUser[s] = 0

\* C21: every step of a paid operation that overlaps nothing (no other
\* request and no resolution in flight, and the operation was started from
\* the profile that is held now) lowers the held and the persisted balance
\* by exactly the price when it charges (a successful charge-after response,
\* a file-analysis attempt that passes the gate) and leaves both as they are
\* when it does not; so a sequence of such operations ends at the starting
\* balance minus the sum of the prices charged.
C21_SequentialSum ==
    [][/\ \A c \in ChargeAfterClients :
            (/\ Completes(c)
             /\ NothingOverlaps(c)
             /\ requests[c][1].ctx = profile)
            => LET r == requests[c][1]
                   p == IF BackendSucceeded(c, r, effects'.outcome[1])
                        THEN ChargeAfterPrice(c, r) ELSE 0
               IN  /\ profile' # <<>>
                   /\ profile'[1].token_points = profile[1].token_points - p
                   /\ RecordIn(store', profile[1].id).token_points
                        = profile[1].token_points - p
       /\ (/\ effects'.call = "handleApproachSelection"
            /\ NothingInFlight
            /\ profile # <<>>)
          => LET price == PriceOf(effects'.call, effects'.arg)
                 p == IF profile[1].token_points >= price THEN price ELSE 0
             IN  /\ profile' # <<>>
                 /\ profile'[1].token_points = profile[1].token_points - p
                 /\ RecordIn(store', profile[1].id).token_points
                      = profile[1].token_points - p
       /\ (\/ effects'.call \in ChargeAfterHandlers
            \/ effects'.call = "handleApproachSelection.resume")
          => /\ profile' = profile
             /\ store' = store]_vars

\* C21 witness: a classical analysis (20) and then a SMILES run (7), one
\* after the other on a fresh profile, have left 1000 - 27 held and stored.
C21_Witness ==
    /\ effects.call = "handleProcessSmiles.resume"
    /\ NothingInFlight
    /\ profile # <<>>
    /\ profile[1].token_points
         = StartingBalance - CostClassical - SmilesCost
    /\ Stored(profile[1].id).token_points
         = StartingBalance - CostClassical - SmilesCost

\* C22: a failed file analysis leaves the selected file and the approach
\* dialog as they are and ends the analyzing state, so the approach can be
\* chosen again; and every attempt that passes the gate, the first or a
\* retry, calls updatePoints with the held balance minus the price of the
\* approach and issues its request, so k attempts debit the price k times.
C22_RetryChargedAgain ==
    [][/\ (/\ Completes("index")
            /\ \/ effects'.outcome[1].threw
               \/ ~effects'.outcome[1].ok)
          => /\ index'.selectedFile = index.selectedFile
             /\ index'.showApproachSelection = index.showApproachSelection
             /\ ~index'.isAnalyzing
             /\ profile' = profile
             /\ store' = store
       /\ (/\ effects'.call = "handleApproachSelection"
            /\ profile # <<>>
            /\ profile[1].token_points
                 >= PriceOf(effects'.call, effects'.arg))
          => LET newPoints == profile[1].token_points
                                - PriceOf(effects'.call, effects'.arg)
             IN  /\ effects'.updatePoints = Call(profile, newPoints)
                 /\ effects'.requests = <<"/api/upload-and-process">>
                 /\ profile'[1].token_points = newPoints
                 /\ RecordIn(store', profile[1].id).token_points
                      = newPoints]_vars

\* C22 witness: the second classical analysis of a fresh profile has
\* failed: the file and the dialog are still there, and 2 x 20 is gone.
C22_Witness ==
    /\ effects.call = "handleApproachSelection.resume"
    /\ effects.outcome # <<>>
    /\ ~effects.outcome[1].ok
    /\ index.selectedFile
    /\ index.showApproachSelection
    /\ ~index.isAnalyzing
    /\ profile # <<>>
    /\ profile[1].token_points = StartingBalance - 2 * CostClassical
    /\ Stored(profile[1].id).token_points
         = StartingBalance - 2 * CostClassical

\* C23: no step raises a balance: the token_points of a stored record and
\* of the held profile of one subject only fall or stay, also when paid
\* operations overlap or a resolution completes after a debit.
C23_BalanceNeverIncreases ==
    [][/\ \A s \in Subjects :
            (store[Key(s)] # <<>> /\ store'[Key(s)] # <<>>)
            => RecordIn(store', s).token_points
                 <= RecordIn(store, s).token_points
       /\ (/\ profile # <<>>
            /\ profile' # <<>>
            /\ profile'[1].id = profile[1].id)
          => profile'[1].token_points <= profile[1].token_points]_vars

\* C24: loading is true only while the initial getSession is outstanding:
\* once its result has been delivered loading is false, with or without a
\* session in the result.
C24_LoadingOnlyDuringInitialFetch == getSession = "resolved" => ~loading

\* C25: whenever a session and a held profile are both present, the held
\* profile is the one of the session's subject.
C25_HeldProfileIsOfSession ==
    (session # NoSession /\ profile # <<>>) => profile[1].id = session

\* C26: updatePoints writes only for the subject whose session is current:
\* every step that calls updatePoints through a context value with a profile
\* finds the session of that profile's subject, and a response arriving
\* for a profile of another subject, or with no session, writes nothing and
\* leaves the held profile as it is.
C26_DebitOnlyForCurrentSession ==
    [][(effects'.updatePoints # <<>>
        /\ effects'.updatePoints[1].profile # <<>>)
       => /\ session = effects'.updatePoints[1].profile[1].id
          /\ \A k \in Keys : store'[k] # store[k] => k = Key(session)]_vars

\* C27: whenever a profile is held, the record stored under its id, parsed,
\* is the held profile, field by field.
C27_HeldProfileIsStored ==
    profile # <<>>
    => /\ store[Key(profile[1].id)] # <<>>
       /\ LET rec == JSONparse(store[Key(profile[1].id)])
          IN  /\ rec.id = profile[1].id
              /\ rec.email = profile[1].email
              /\ rec.token_points = profile[1].token_points
              /\ rec.created_at = profile[1].created_at

\* C27 witness: after a debit made while another resolution was in flight
\* the held profile, with a balance below 1000, is the stored record.
C27_Witness ==
    /\ effects.updatePoints # <<>>
    /\ \E s \in Subjects : pendingGetUser[s] > 0
    /\ profile # <<>>
    /\ profile[1].token_points < StartingBalance
    /\ JSONparse(store[Key(profile[1].id)]) = profile[1]

\* C28: in a Molecule3DViewer whose 2D structure has been generated, a
\* 'View 2D' click only toggles the visibility: no request, no updatePoints
\* call, profile and store as they were; the structure once generated
\* stays, and the 2D debit of a viewer comes only while it has none, so a
\* viewer debits the 2D price at most once.
C28_View2DChargedOnce ==
    [][\A v \in Viewers :
         /\ (effects'.call = "generate2DStructure" /\ effects'.arg = v
              /\ viewer[v].structure2D)
            => /\ effects'.requests = <<>>
               /\ effects'.updatePoints = <<>>
               /\ requests' = requests
               /\ profile' = profile
               /\ store' = store
               /\ viewer'[v] = [viewer[v] EXCEPT
                                  !.showVisualization = ~@]
         /\ viewer[v].structure2D => viewer'[v].structure2D
         /\ (effects'.call = "generate2DStructure.resume"
              /\ effects'.arg = v
              /\ effects'.updatePoints # <<>>)
            => /\ ~viewer[v].structure2D
               /\ viewer'[v].structure2D]_vars

\* C28 witness: a viewer with a generated structure has been clicked again
\* and has hidden it, with no request issued and no debit.
C28_Witness ==
    /\ effects.call = "generate2DStructure"
    /\ effects.arg \in Viewers
    /\ viewer[effects.arg].structure2D
    /\ ~viewer[effects.arg].showVisualization
    /\ effects.requests = <<>>
    /\ effects.updatePoints = <<>>
    /\ \A c \in Clients : requests[c] = <<>>

AuthCalls == {"signIn", "signUp", "signOut"}

\* C29: a failed signIn, signUp or signOut throws to its caller, and no
\* call of the three, failed or not, changes the session, the user, the
\* held profile, loading or the store: those change only in the steps of
\* delivered session events and their resolutions.
C29_AuthCallsChangeNothing ==
    [][effects'.call \in AuthCalls
       => /\ effects'.arg # "ok" => effects'.threw
          /\ session' = session
          /\ user' = user
          /\ profile' = profile
          /\ loading' = loading
          /\ store' = store
          /\ effects'.writes = <<>>]_vars

\* C29 witness: signOut has failed while a session and a debited profile
\* were held, and both are still held, the record as debited.
C29_Witness ==
    /\ effects.call = "signOut"
    /\ effects.threw
    /\ session # NoSession
    /\ profile # <<>>
    /\ profile[1].id = session
    /\ profile[1].token_points \notin {StartingBalance, InitBalance}
    /\ Stored(session).token_points = profile[1].token_points

\* C30: updatePoints called through a context value whose profile is null
\* writes nothing to the store and leaves the held profile absent.
C30_UpdatePointsWithoutProfile ==
    [][(effects'.updatePoints # <<>>
        /\ effects'.updatePoints[1].profile = <<>>)
       => /\ store' = store
          /\ effects'.writes = <<>>
          /\ profile' = profile
          /\ effects'.call = "updatePoints" => profile' = <<>>]_vars

\* C30 witness: updatePoints(500) has been called with no session and no
\* profile held; none is held after it, and the earlier record in the
\* store is as it was.
C30_Witness ==
    /\ effects.call = "updatePoints"
    /\ effects.updatePoints = Call(<<>>, 500)
    /\ profile = <<>>
    /\ session = NoSession
    /\ Stored(Returning).token_points = InitBalance

============================================================================
